---- MODULE Spec2Model ----
(***************************************************************************)
(* helium-wallet: the transaction commands `pay`, `htlc create`,           *)
(* `htlc redeem`, `oui create` and `oui submit` as one state machine.      *)
(* One invocation of the binary runs at a time (main is single-threaded);  *)
(* the ledger's speculative nonce is the only state that outlives it.      *)
(***************************************************************************)
EXTENDS Integers, Sequences, FiniteSets, TLC

\* ------------------------------------------------------------------ bounds
\* The ledger's speculative nonce is capped: no nonce-bearing command starts
\* once the account has reached it.
MaxNonce == 2

\* The number of --payee arguments of one `pay` invocation.
MaxPayees == 1

\* ------------------------------------------------------------- value model
\* Option<T>: None is the empty sequence, Some(x) the one-element sequence.
None == <<>>
Some(x) == <<x>>

\* Public-key identifiers (PubKeyBin) the model draws from.
Keys == {"k1", "k2", "k3"}

\* Keypair::gen_keypair(): the fresh contract addresses an invocation can draw.
GenKeys == {"g1", "g2"}

\* PubKeyBin -> Vec<u8> (to_vec / into): the bytes of one identifier.
ToVec(k) == <<k>>

\* An empty Vec<u8> (vec![] / Vec::new()).
EmptyVec == <<>>

\* B58 text of an identifier, and texts that are no valid B58 address.
ToB58(k) == <<"b58", k>>
BadB58 == <<"b58?">>
AddressTexts == {ToB58(k) : k \in Keys} \cup {BadB58}

\* PubKeyBin::from_b58: Ok(key) or Err.
FromB58(s) ==
    IF Len(s) = 2 /\ s[1] = "b58" /\ s[2] \in Keys
    THEN [ok |-> TRUE, v |-> s[2]]
    ELSE [ok |-> FALSE, v |-> "EncodingError"]

\* Hnt: a decimal with at most 8 fractional digits, mantissa * 10^-scale.
HntScale == 8
Pow10(n) == IF n = 0 THEN 1 ELSE IF n = 1 THEN 10 ELSE IF n = 2 THEN 100
            ELSE IF n = 3 THEN 1000 ELSE IF n = 4 THEN 10000
            ELSE IF n = 5 THEN 100000 ELSE IF n = 6 THEN 1000000
            ELSE IF n = 7 THEN 10000000 ELSE 100000000
HntValues == {[mantissa |-> 1, scale |-> 0], [mantissa |-> 5, scale |-> 8]}
\* Hnt::to_bones: the amount in bones (10^8 bones = 1 HNT).
ToBones(h) == h.mantissa * Pow10(HntScale - h.scale)

\* Hex text (the --hashlock argument): its digit count and whether every
\* character is a hex digit. hex::decode fails on an odd count or a bad digit.
HexTexts == {[digits |-> 64, allhex |-> TRUE],
             [digits |-> 4, allhex |-> TRUE],
             [digits |-> 3, allhex |-> TRUE],
             [digits |-> 64, allhex |-> FALSE]}
HexDecode(h) ==
    IF h.allhex /\ h.digits % 2 = 0
    THEN [ok |-> TRUE, v |-> [len |-> h.digits \div 2, of |-> h]]
    ELSE [ok |-> FALSE, v |-> "FromHexError"]

\* Base64 text of the --filter argument: valid (decodes to these bytes) or not.
FilterTexts == {<<"b64", "filter">>, <<"b64?">>}
Base64Decode(s) ==
    IF Len(s) = 2 /\ s[1] = "b64"
    THEN [ok |-> TRUE, v |-> <<s[2]>>]
    ELSE [ok |-> FALSE, v |-> "DecodeError"]

\* Keypair::sign: the signature of `key` over `buf`, a non-empty byte string.
KeypairSign(key, buf) == <<"ed25519", key, buf>>

\* Signature-slot contents that no signing of this model produces.
Garbage == <<"garbage">>

\* ---------------------------------------------------- transaction variants
\* prost encoding of each message: its fields in declaration order.
EncodePayment(t) == <<"payment_v2", t.fee, t.payments, t.payer, t.nonce, t.signature>>
EncodeCreateHtlc(t) ==
    <<"create_htlc_v1", t.amount, t.fee, t.payee, t.payer, t.address,
      t.hashlock, t.timelock, t.nonce, t.signature>>
EncodeRedeemHtlc(t) == <<"redeem_htlc_v1", t.fee, t.payee, t.address, t.preimage, t.signature>>
EncodeOui(t) ==
    <<"oui_v1", t.addresses, t.owner, t.payer, t.oui, t.fee, t.staking_fee,
      t.owner_signature, t.payer_signature, t.requested_subnet_size, t.filter>>

\* Canonical encoder: the message encoded with every signature slot cleared.
CanonicalPayment(t) == EncodePayment([t EXCEPT !.signature = EmptyVec])
CanonicalCreateHtlc(t) == EncodeCreateHtlc([t EXCEPT !.signature = EmptyVec])
CanonicalRedeemHtlc_Raw(t) == EncodeRedeemHtlc(t)
CanonicalRedeemHtlc(t) == EncodeRedeemHtlc([t EXCEPT !.signature = EmptyVec])
CanonicalOui_KeepPayerSig(t) == EncodeOui([t EXCEPT !.owner_signature = EmptyVec])
CanonicalOui(t) ==
    EncodeOui([t EXCEPT !.owner_signature = EmptyVec, !.payer_signature = EmptyVec])

\* Sign::sign(&mut self, keypair, signer): Ok(signed txn) or Err("Invalid signer").
Roles == {"Owner", "Payer"}
SignPayment(t, key, role) ==
    IF role = "Owner"
    THEN [ok |-> TRUE, v |-> [t EXCEPT !.signature = KeypairSign(key, CanonicalPayment(t))]]
    ELSE [ok |-> FALSE, v |-> t]
SignCreateHtlc(t, key, role) ==
    IF role = "Owner"
    THEN [ok |-> TRUE, v |-> [t EXCEPT !.signature = KeypairSign(key, CanonicalCreateHtlc(t))]]
    ELSE [ok |-> FALSE, v |-> t]
SignRedeemHtlc(t, key, role) ==
    IF role = "Owner"
    THEN [ok |-> TRUE, v |-> [t EXCEPT !.signature = KeypairSign(key, CanonicalRedeemHtlc(t))]]
    ELSE [ok |-> FALSE, v |-> t]
SignOui(t, key, role) ==
    IF role = "Owner"
    THEN [ok |-> TRUE, v |-> [t EXCEPT !.owner_signature = KeypairSign(key, CanonicalOui(t))]]
    ELSE [ok |-> TRUE, v |-> [t EXCEPT !.payer_signature = KeypairSign(key, CanonicalOui(t))]]

\* ---------------------------------------------------------------- envelope
\* TxnEnvelope::in_envelope: BlockchainTxn { txn: Some(Txn::<Kind>(txn)) }.
InEnvelope(kind, t) == [txn |-> Some([kind |-> kind, v |-> t])]
\* A BlockchainTxn that holds no variant.
EmptyEnvelope == [txn |-> None]

\* B64::to_b64 / from_b64 of an envelope: base64 of its binary encoding.
EnvelopeToBinary(e) ==
    IF e.txn = None THEN <<>>
    ELSE LET k == e.txn[1].kind
             t == e.txn[1].v
         IN  IF k = "Payment" THEN EncodePayment(t)
             ELSE IF k = "CreateHtlc" THEN EncodeCreateHtlc(t)
             ELSE IF k = "RedeemHtlc" THEN EncodeRedeemHtlc(t)
             ELSE EncodeOui(t)
ToB64(e) == <<"b64", EnvelopeToBinary(e)>>

\* B64::from_b64: Ok(envelope) or Err; the inverse of the encoders above.
DecodeTxn(b) ==
    IF b[1] = "payment_v2"
    THEN [kind |-> "Payment",
          v |-> [fee |-> b[2], payments |-> b[3], payer |-> b[4], nonce |-> b[5],
                 signature |-> b[6]]]
    ELSE IF b[1] = "create_htlc_v1"
    THEN [kind |-> "CreateHtlc",
          v |-> [amount |-> b[2], fee |-> b[3], payee |-> b[4], payer |-> b[5],
                 address |-> b[6], hashlock |-> b[7], timelock |-> b[8],
                 nonce |-> b[9], signature |-> b[10]]]
    ELSE IF b[1] = "redeem_htlc_v1"
    THEN [kind |-> "RedeemHtlc",
          v |-> [fee |-> b[2], payee |-> b[3], address |-> b[4], preimage |-> b[5],
                 signature |-> b[6]]]
    ELSE [kind |-> "Oui",
          v |-> [addresses |-> b[2], owner |-> b[3], payer |-> b[4], oui |-> b[5],
                 fee |-> b[6], staking_fee |-> b[7], owner_signature |-> b[8],
                 payer_signature |-> b[9], requested_subnet_size |-> b[10],
                 filter |-> b[11]]]
FromB64_SwapSlots(s) ==
    IF Len(s) = 2 /\ s[1] = "b64"
    THEN [ok |-> TRUE,
          v |-> IF s[2] = <<>> THEN EmptyEnvelope
                ELSE IF DecodeTxn(s[2]).kind = "Oui"
                THEN [txn |-> Some([kind |-> "Oui",
                                    v |-> [DecodeTxn(s[2]).v EXCEPT
                                             !.owner_signature = s[2][9],
                                             !.payer_signature = s[2][8]]])]
                ELSE [txn |-> Some(DecodeTxn(s[2]))]]
    ELSE [ok |-> FALSE, v |-> EmptyEnvelope]
FromB64(s) ==
    IF Len(s) = 2 /\ s[1] = "b64"
    THEN [ok |-> TRUE,
          v |-> IF s[2] = <<>> THEN EmptyEnvelope ELSE [txn |-> Some(DecodeTxn(s[2]))]]
    ELSE [ok |-> FALSE, v |-> EmptyEnvelope]

\* PendingTxnStatus returned by the ledger API for a submitted envelope.
PendingStatus(e) == [hash |-> <<"hash", EnvelopeToBinary(e)>>]

\* ------------------------------------------------------------------- state
VARIABLES
    wallet_key,         \* the wallet's public key (keypair.pubkey_bin())
    staking_key,        \* the staking server's address (staking_client.address())
    speculative_nonce,  \* the ledger's speculative nonce of the wallet's account
    cmd,                \* the parsed command line of the running invocation
    pc,                 \* the position of the invocation inside run()
    txn,                \* the local `txn` of run()
    envelope,           \* the local `envelope` of run()
    status,             \* the local `status` of run(): Option<PendingTxnStatus>
    payer,              \* the local `payer` of oui::Create::run: Option<PubKeyBin>
    parsed,             \* what Payee::from_str returned, once it has: Option<Payee>
    account,            \* the local `account` of run(): what get_account returned
    ledger_nonces,      \* nonces of the transactions the ledger accepted, in order
    prev_built,         \* the account nonce read and the nonce built by the last
                        \* invocation that built a Payment or a CreateHTLC
    api_log,            \* envelopes passed to api_client.submit_txn, in call order
    staking_log,        \* calls made to the staking client, in call order
    stdout,             \* what the invocation printed
    result,             \* what run() returned to main: "running", "Ok" or an error
    trace               \* the steps the invocation has completed, in order

vars == <<wallet_key, staking_key, speculative_nonce, cmd, pc, txn, envelope,
          status, payer, parsed, account, ledger_nonces, prev_built, api_log, staking_log, stdout, result, trace>>

env == <<wallet_key, staking_key>>
locals == <<txn, envelope, status>>
logs == <<api_log, staking_log, stdout>>
nonces == <<account, ledger_nonces, prev_built>>

NoCmd == [name |-> "none"]
NoTxn == [unset |-> TRUE]
Formats == {"Table", "Json"}

Init ==
    /\ wallet_key \in Keys
    /\ staking_key \in Keys
    /\ speculative_nonce = 0
    /\ cmd = NoCmd
    /\ pc = "idle"
    /\ txn = NoTxn
    /\ envelope = EmptyEnvelope
    /\ status = None
    /\ payer = None
    /\ parsed = None
    /\ account = None
    /\ ledger_nonces = <<>>
    /\ prev_built = None
    /\ api_log = <<>>
    /\ staking_log = <<>>
    /\ stdout = <<>>
    /\ result = "running"
    /\ trace = <<>>

\* `?` on an Err: run() returns the error; nothing else changes.
Fail(err) ==
    /\ result' = err
    /\ pc' = "exit"

\* get_password / load_wallet / wallet.to_keypair at the head of run(): each
\* may fail (wrong password, unreadable file), and then run() returns the error.
LoadWallet ==
    /\ pc = "load"
    /\ \/ /\ pc' = "build"
          /\ UNCHANGED result
       \/ Fail("WalletError")
    /\ UNCHANGED <<env, parsed, nonces, payer, speculative_nonce, cmd, locals, logs, trace>>

\* `if self.commit { Some(client.submit_txn(&envelope)?) } else { None }`:
\* whether the submission call is made.
CommitGuard_Always(commit) == TRUE
CommitGuard(commit) == commit

\* client.get_account(..)?: the account as the ledger has it now.
GetAccount == [speculative_nonce |-> speculative_nonce]

\* `account.speculative_nonce + 1`
NextNonce_Same(n) == n
NextNonce(n) == n + 1

\* ---------------------------------------------------------------------- pay
PayeeArgs == [address : {ToB58("k3"), BadB58}, amount : HntValues]
RECURSIVE SeqsUpTo(_, _)
SeqsUpTo(S, n) ==
    IF n = 0 THEN {<<>>}
    ELSE LET shorter == SeqsUpTo(S, n - 1)
         IN  shorter \cup {Append(q, x) : q \in {r \in shorter : Len(r) = n - 1}, x \in S}

\* Cli::from_args + run(cli) dispatching to pay::Cmd::run.
Pay_run ==
    /\ pc = "idle"
    /\ speculative_nonce < MaxNonce
    /\ \E payees \in SeqsUpTo(PayeeArgs, MaxPayees) \ {<<>>},
          commit \in BOOLEAN, format \in Formats :
          cmd' = [name |-> "pay", payees |-> payees, commit |-> commit,
                  format |-> format]
    /\ pc' = "load"
    /\ UNCHANGED <<env, parsed, nonces, payer, speculative_nonce, locals, logs, result, trace>>

\* payees -> Vec<Payment>: the first from_b58 error, if any, is the result.
PayPayments(payees) ==
    IF \E i \in 1..Len(payees) : ~FromB58(payees[i].address).ok
    THEN [ok |-> FALSE, v |-> <<>>]
    ELSE [ok |-> TRUE,
          v |-> [i \in 1..Len(payees) |->
                   [payee |-> ToVec(FromB58(payees[i].address).v),
                    amount |-> ToBones(payees[i].amount)]]]

\* client.get_account, the payments and the BlockchainTxnPaymentV2 literal.
Pay_build ==
    /\ pc = "build"
    /\ cmd.name = "pay"
    /\ \/ /\ Fail("AccountError")
          /\ UNCHANGED <<txn, trace, account>>
       \/ /\ ~PayPayments(cmd.payees).ok
          /\ Fail("EncodingError")
          /\ account' = Some(GetAccount)
          /\ UNCHANGED <<txn, trace>>
       \/ /\ PayPayments(cmd.payees).ok
          /\ txn' = [fee |-> 0,
                     payments |-> PayPayments(cmd.payees).v,
                     payer |-> ToVec(wallet_key),
                     nonce |-> NextNonce(GetAccount.speculative_nonce),
                     signature |-> EmptyVec]
          /\ pc' = "sign"
          /\ trace' = Append(trace, "build")
          /\ account' = Some(GetAccount)
          /\ UNCHANGED result
    /\ UNCHANGED <<env, parsed, ledger_nonces, prev_built, payer, speculative_nonce, cmd, envelope, status, logs>>

\* Pay_sign without the `?`: a signing error is dropped and the unsigned
\* transaction is wrapped.
Pay_sign_Unchecked ==
    /\ pc = "sign"
    /\ cmd.name = "pay"
    /\ LET r == SignPayment(txn, wallet_key, "Owner")
       IN  \/ /\ r.ok
              /\ txn' = r.v
              /\ envelope' = InEnvelope("Payment", r.v)
           \/ /\ txn' = txn
              /\ envelope' = InEnvelope("Payment", txn)
    /\ pc' = "submit"
    /\ trace' = trace \o <<"sign", "wrap">>
    /\ UNCHANGED <<env, parsed, nonces, payer, speculative_nonce, cmd, status, logs, result>>

\* txn.sign(&keypair, Signer::Owner)?.in_envelope()
Pay_sign ==
    /\ pc = "sign"
    /\ cmd.name = "pay"
    /\ LET r == SignPayment(txn, wallet_key, "Owner")
       IN  \/ /\ r.ok
              /\ txn' = r.v
              /\ envelope' = InEnvelope("Payment", r.v)
              /\ pc' = "submit"
              /\ trace' = trace \o <<"sign", "wrap">>
              /\ UNCHANGED result
           \/ /\ Fail("SigningError")
              /\ UNCHANGED <<txn, envelope, trace>>
    /\ UNCHANGED <<env, parsed, nonces, payer, speculative_nonce, cmd, status, logs>>

\* Pay_submit without the `?`: a failed submission is swallowed and the
\* command goes on to print.
Pay_submit_Swallow ==
    /\ pc = "submit"
    /\ cmd.name = "pay"
    /\ IF CommitGuard(cmd.commit)
       THEN /\ api_log' = Append(api_log, envelope)
            /\ \/ /\ status' = Some(PendingStatus(envelope))
                  /\ speculative_nonce' = txn.nonce
                  /\ ledger_nonces' = Append(ledger_nonces, txn.nonce)
                  /\ trace' = Append(trace, "submit")
               \/ UNCHANGED <<status, speculative_nonce, ledger_nonces, trace>>
       ELSE /\ status' = None
            /\ UNCHANGED <<api_log, speculative_nonce, ledger_nonces, trace>>
    /\ pc' = "print"
    /\ UNCHANGED <<env, parsed, account, prev_built, payer, cmd, txn, envelope, staking_log, stdout, result>>

\* The `if self.commit` statement around client.submit_txn(&envelope)?.
Pay_submit ==
    /\ pc = "submit"
    /\ cmd.name = "pay"
    /\ IF CommitGuard(cmd.commit)
       THEN /\ api_log' = Append(api_log, envelope)
            /\ \/ /\ status' = Some(PendingStatus(envelope))
                  /\ speculative_nonce' = txn.nonce
                  /\ ledger_nonces' = Append(ledger_nonces, txn.nonce)
                  /\ pc' = "print"
                  /\ trace' = Append(trace, "submit")
                  /\ UNCHANGED result
               \/ /\ Fail("SubmitError")
                  /\ UNCHANGED <<status, speculative_nonce, ledger_nonces, trace>>
       ELSE /\ status' = None
            /\ pc' = "print"
            /\ UNCHANGED <<api_log, speculative_nonce, ledger_nonces, result, trace>>
    /\ UNCHANGED <<env, parsed, account, prev_built, payer, cmd, txn, envelope, staking_log, stdout>>

\* print_txn of pay.rs: the table shows the payments (and nonce and hash once
\* submitted); the JSON object adds the envelope's base64 text.
Pay_print ==
    /\ pc = "print"
    /\ cmd.name = "pay"
    /\ stdout' = Append(stdout,
         [format |-> cmd.format,
          body |-> txn.payments,
          nonce |-> IF status # None THEN Some(txn.nonce) ELSE None,
          hash |-> IF status # None THEN Some(status[1].hash) ELSE None,
          txn |-> IF cmd.format = "Json" THEN Some(ToB64(envelope)) ELSE None])
    /\ result' = "Ok"
    /\ pc' = "exit"
    /\ trace' = Append(trace, "print")
    /\ UNCHANGED <<env, parsed, nonces, payer, speculative_nonce, cmd, locals, api_log, staking_log>>

\* -------------------------------------------------------------- htlc create
\* Cli::from_args + run(cli) dispatching to htlc::Create::run.
HtlcCreate_run ==
    /\ pc = "idle"
    /\ speculative_nonce < MaxNonce
    /\ \E payee \in {ToB58("k3"), BadB58}, hnt \in HntValues, hashlock \in HexTexts,
          commit \in BOOLEAN, format \in Formats :
          cmd' = [name |-> "htlc_create", payee |-> payee, hnt |-> hnt,
                  hashlock |-> hashlock, timelock |-> 100, commit |-> commit,
                  format |-> format]
    /\ pc' = "load"
    /\ UNCHANGED <<env, parsed, nonces, payer, speculative_nonce, locals, logs, result, trace>>

\* client.get_account, Keypair::gen_keypair and the BlockchainTxnCreateHtlcV1
\* literal, whose fields are evaluated in order: from_b58(payee)? returns an
\* error before hex::decode(hashlock).unwrap() can panic.
HtlcCreate_build ==
    /\ pc = "build"
    /\ cmd.name = "htlc_create"
    /\ \/ /\ Fail("AccountError")
          /\ UNCHANGED <<txn, trace, account>>
       \/ /\ ~FromB58(cmd.payee).ok
          /\ Fail("EncodingError")
          /\ account' = Some(GetAccount)
          /\ UNCHANGED <<txn, trace>>
       \/ /\ FromB58(cmd.payee).ok
          /\ ~HexDecode(cmd.hashlock).ok
          /\ Fail("panic")
          /\ account' = Some(GetAccount)
          /\ UNCHANGED <<txn, trace>>
       \/ /\ FromB58(cmd.payee).ok
          /\ HexDecode(cmd.hashlock).ok
          /\ \E address \in GenKeys :
                txn' = [amount |-> ToBones(cmd.hnt),
                        fee |-> 0,
                        payee |-> ToVec(FromB58(cmd.payee).v),
                        payer |-> ToVec(wallet_key),
                        address |-> ToVec(address),
                        hashlock |-> HexDecode(cmd.hashlock).v,
                        timelock |-> cmd.timelock,
                        nonce |-> NextNonce(GetAccount.speculative_nonce),
                        signature |-> EmptyVec]
          /\ pc' = "sign"
          /\ trace' = Append(trace, "build")
          /\ account' = Some(GetAccount)
          /\ UNCHANGED result
    /\ UNCHANGED <<env, parsed, ledger_nonces, prev_built, payer, speculative_nonce, cmd, envelope, status, logs>>

\* txn.sign(&keypair, Signer::Owner)?.in_envelope()
HtlcCreate_sign ==
    /\ pc = "sign"
    /\ cmd.name = "htlc_create"
    /\ LET r == SignCreateHtlc(txn, wallet_key, "Owner")
       IN  \/ /\ r.ok
              /\ txn' = r.v
              /\ envelope' = InEnvelope("CreateHtlc", r.v)
              /\ pc' = "submit"
              /\ trace' = trace \o <<"sign", "wrap">>
              /\ UNCHANGED result
           \/ /\ Fail("SigningError")
              /\ UNCHANGED <<txn, envelope, trace>>
    /\ UNCHANGED <<env, parsed, nonces, payer, speculative_nonce, cmd, status, logs>>

\* The `if self.commit` statement around client.submit_txn(&envelope)?.
HtlcCreate_submit ==
    /\ pc = "submit"
    /\ cmd.name = "htlc_create"
    /\ IF CommitGuard(cmd.commit)
       THEN /\ api_log' = Append(api_log, envelope)
            /\ \/ /\ status' = Some(PendingStatus(envelope))
                  /\ speculative_nonce' = txn.nonce
                  /\ ledger_nonces' = Append(ledger_nonces, txn.nonce)
                  /\ pc' = "print"
                  /\ trace' = Append(trace, "submit")
                  /\ UNCHANGED result
               \/ /\ Fail("SubmitError")
                  /\ UNCHANGED <<status, speculative_nonce, ledger_nonces, trace>>
       ELSE /\ status' = None
            /\ pc' = "print"
            /\ UNCHANGED <<api_log, speculative_nonce, ledger_nonces, result, trace>>
    /\ UNCHANGED <<env, parsed, account, prev_built, payer, cmd, txn, envelope, staking_log, stdout>>

\* print_create_txn
HtlcCreate_print ==
    /\ pc = "print"
    /\ cmd.name = "htlc_create"
    /\ stdout' = Append(stdout,
         [format |-> cmd.format,
          body |-> <<txn.address, txn.payee, txn.amount, txn.hashlock, txn.timelock>>,
          nonce |-> IF status # None /\ cmd.format = "Table"
                    THEN Some(txn.nonce) ELSE None,
          hash |-> IF status # None THEN Some(status[1].hash) ELSE None,
          txn |-> IF cmd.format = "Json" THEN Some(ToB64(envelope)) ELSE None])
    /\ result' = "Ok"
    /\ pc' = "exit"
    /\ trace' = Append(trace, "print")
    /\ UNCHANGED <<env, parsed, nonces, payer, speculative_nonce, cmd, locals, api_log, staking_log>>

\* -------------------------------------------------------------- htlc redeem
\* Cli::from_args + run(cli) dispatching to htlc::Redeem::run.
HtlcRedeem_run ==
    /\ pc = "idle"
    /\ \E address \in {ToB58("k2"), BadB58}, commit \in BOOLEAN, format \in Formats :
          cmd' = [name |-> "htlc_redeem", address |-> address, preimage |-> "secret",
                  commit |-> commit, format |-> format]
    /\ pc' = "load"
    /\ UNCHANGED <<env, parsed, nonces, payer, speculative_nonce, locals, logs, result, trace>>

\* String::into_bytes
IntoBytes(str) == <<str>>

\* The BlockchainTxnRedeemHtlcV1 literal.
HtlcRedeem_build ==
    /\ pc = "build"
    /\ cmd.name = "htlc_redeem"
    /\ \/ /\ ~FromB58(cmd.address).ok
          /\ Fail("EncodingError")
          /\ UNCHANGED <<txn, trace>>
       \/ /\ FromB58(cmd.address).ok
          /\ txn' = [fee |-> 0,
                     payee |-> ToVec(wallet_key),
                     address |-> ToVec(FromB58(cmd.address).v),
                     preimage |-> IntoBytes(cmd.preimage),
                     signature |-> EmptyVec]
          /\ pc' = "sign"
          /\ trace' = Append(trace, "build")
          /\ UNCHANGED result
    /\ UNCHANGED <<env, parsed, nonces, payer, speculative_nonce, cmd, envelope, status, logs>>

\* txn.sign(&keypair, Signer::Owner)?.in_envelope()
HtlcRedeem_sign ==
    /\ pc = "sign"
    /\ cmd.name = "htlc_redeem"
    /\ LET r == SignRedeemHtlc(txn, wallet_key, "Owner")
       IN  \/ /\ r.ok
              /\ txn' = r.v
              /\ envelope' = InEnvelope("RedeemHtlc", r.v)
              /\ pc' = "submit"
              /\ trace' = trace \o <<"sign", "wrap">>
              /\ UNCHANGED result
           \/ /\ Fail("SigningError")
              /\ UNCHANGED <<txn, envelope, trace>>
    /\ UNCHANGED <<env, parsed, nonces, payer, speculative_nonce, cmd, status, logs>>

\* The `if self.commit` statement around client.submit_txn(&envelope)?.
HtlcRedeem_submit ==
    /\ pc = "submit"
    /\ cmd.name = "htlc_redeem"
    /\ IF CommitGuard(cmd.commit)
       THEN /\ api_log' = Append(api_log, envelope)
            /\ \/ /\ status' = Some(PendingStatus(envelope))
                  /\ pc' = "print"
                  /\ trace' = Append(trace, "submit")
                  /\ UNCHANGED result
               \/ /\ Fail("SubmitError")
                  /\ UNCHANGED <<status, trace>>
       ELSE /\ status' = None
            /\ pc' = "print"
            /\ UNCHANGED <<api_log, result, trace>>
    /\ UNCHANGED <<env, parsed, nonces, payer, speculative_nonce, cmd, txn, envelope, staking_log, stdout>>

\* print_redeem_txn
HtlcRedeem_print ==
    /\ pc = "print"
    /\ cmd.name = "htlc_redeem"
    /\ stdout' = Append(stdout,
         [format |-> cmd.format,
          body |-> IF cmd.format = "Table"
                   THEN <<txn.payee, txn.address, txn.preimage>>
                   ELSE <<txn.address, txn.payee>>,
          nonce |-> None,
          hash |-> IF status # None THEN Some(status[1].hash) ELSE None,
          txn |-> IF cmd.format = "Json" THEN Some(ToB64(envelope)) ELSE None])
    /\ result' = "Ok"
    /\ pc' = "exit"
    /\ trace' = Append(trace, "print")
    /\ UNCHANGED <<env, parsed, nonces, payer, speculative_nonce, cmd, locals, api_log, staking_log>>

\* --------------------------------------------------------------- oui create
\* The --payer argument: absent, the word "staking", or a B58 address.
StakingText == <<"staking">>
PayerArgs == {None} \cup {Some(s) : s \in {StakingText} \cup AddressTexts}

\* get_payer(staking_address, payer): the payer the argument names. It is
\* given the staking address and the argument only, never the wallet's key.
GetPayer(staking_address, arg) ==
    IF arg = None THEN [ok |-> TRUE, v |-> None]
    ELSE IF arg[1] = StakingText THEN [ok |-> TRUE, v |-> Some(staking_address)]
    ELSE IF FromB58(arg[1]).ok THEN [ok |-> TRUE, v |-> Some(FromB58(arg[1]).v)]
    ELSE [ok |-> FALSE, v |-> None]

\* payer.map_or(vec![], |v| v.to_vec()): the transaction's payer field.
PayerField_WalletDefault(p) == IF p = None THEN ToVec(wallet_key) ELSE ToVec(p[1])
PayerField(p) == IF p = None THEN EmptyVec ELSE ToVec(p[1])

\* The match arm `key if key == Some(wallet_key) || key.is_none()`.
IsSelfPay_AnyPayer(key, wallet) == TRUE
IsSelfPay(key, wallet) == key = Some(wallet) \/ key = None

SubnetSizes == {0, 7, 8, 16, 100, 65536, 65537}

\* Cli::from_args + run(cli) dispatching to oui::Create::run.
OuiCreate_run ==
    /\ pc = "idle"
    /\ \E addresses \in {<<>>, <<"k3">>}, filter \in FilterTexts,
          subnet_size \in SubnetSizes, arg \in PayerArgs,
          commit \in BOOLEAN, format \in Formats :
          cmd' = [name |-> "oui_create", addresses |-> addresses, filter |-> filter,
                  oui |-> 1, subnet_size |-> subnet_size, payer |-> arg,
                  commit |-> commit, format |-> format]
    /\ pc' = "load"
    /\ UNCHANGED <<env, parsed, nonces, payer, speculative_nonce, locals, logs, result, trace>>

\* staking_client.address()?, get_payer(..)? and the BlockchainTxnOuiV1
\* literal, whose last field is base64::decode(&self.filter)?.
OuiCreate_build ==
    /\ pc = "build"
    /\ cmd.name = "oui_create"
    /\ staking_log' = Append(staking_log, "address")
    /\ \/ /\ Fail("StakingError")
          /\ UNCHANGED <<txn, payer, trace>>
       \/ /\ ~GetPayer(staking_key, cmd.payer).ok
          /\ Fail("EncodingError")
          /\ UNCHANGED <<txn, payer, trace>>
       \/ /\ GetPayer(staking_key, cmd.payer).ok
          /\ payer' = GetPayer(staking_key, cmd.payer).v
          /\ IF Base64Decode(cmd.filter).ok
             THEN /\ txn' = [addresses |-> [i \in 1..Len(cmd.addresses) |->
                                              ToVec(cmd.addresses[i])],
                             owner |-> ToVec(wallet_key),
                             payer |-> PayerField(GetPayer(staking_key, cmd.payer).v),
                             oui |-> cmd.oui,
                             fee |-> 0,
                             staking_fee |-> 1,
                             owner_signature |-> EmptyVec,
                             payer_signature |-> EmptyVec,
                             requested_subnet_size |-> cmd.subnet_size,
                             filter |-> Base64Decode(cmd.filter).v]
                  /\ pc' = "sign"
                  /\ trace' = Append(trace, "build")
                  /\ UNCHANGED result
             ELSE /\ Fail("DecodeError")
                  /\ UNCHANGED <<txn, trace>>
    /\ UNCHANGED <<env, parsed, nonces, speculative_nonce, cmd, envelope, status, api_log, stdout>>

\* txn.sign(&keypair, Signer::Owner)?.in_envelope()
OuiCreate_sign ==
    /\ pc = "sign"
    /\ cmd.name = "oui_create"
    /\ LET r == SignOui(txn, wallet_key, "Owner")
       IN  \/ /\ r.ok
              /\ txn' = r.v
              /\ envelope' = InEnvelope("Oui", r.v)
              /\ pc' = "submit"
              /\ trace' = trace \o <<"sign", "wrap">>
              /\ UNCHANGED result
           \/ /\ Fail("SigningError")
              /\ UNCHANGED <<txn, envelope, trace>>
    /\ UNCHANGED <<env, parsed, nonces, payer, speculative_nonce, cmd, status, logs>>

\* `match payer`: the wallet (or nobody) pays and the envelope is submitted
\* if --commit is given; any other payer and it is only displayed.
OuiCreate_submit ==
    /\ pc = "submit"
    /\ cmd.name = "oui_create"
    /\ IF IsSelfPay(payer, wallet_key)
       THEN IF CommitGuard(cmd.commit)
            THEN /\ api_log' = Append(api_log, envelope)
                 /\ \/ /\ status' = Some(PendingStatus(envelope))
                       /\ pc' = "print"
                       /\ trace' = Append(trace, "submit")
                       /\ UNCHANGED result
                    \/ /\ Fail("SubmitError")
                       /\ UNCHANGED <<status, trace>>
            ELSE /\ status' = None
                 /\ pc' = "print"
                 /\ UNCHANGED <<api_log, result, trace>>
       ELSE /\ status' = None
            /\ pc' = "print"
            /\ UNCHANGED <<api_log, result, trace>>
    /\ UNCHANGED <<env, parsed, nonces, payer, speculative_nonce, cmd, txn, envelope, staking_log, stdout>>

\* print_txn of oui.rs: the table shows the subnet size and the addresses (and
\* the hash once submitted); the JSON object adds payer and envelope text.
OuiPrinted(t, e, st, format) ==
    [format |-> format,
     body |-> IF format = "Table"
              THEN <<t.requested_subnet_size, t.addresses>>
              ELSE <<t.addresses, t.requested_subnet_size, t.payer>>,
     nonce |-> None,
     hash |-> IF st # None THEN Some(st[1].hash) ELSE None,
     txn |-> IF format = "Json" THEN Some(ToB64(e)) ELSE None]

OuiCreate_print ==
    /\ pc = "print"
    /\ cmd.name = "oui_create"
    /\ stdout' = Append(stdout, OuiPrinted(txn, envelope, status, cmd.format))
    /\ result' = "Ok"
    /\ pc' = "exit"
    /\ trace' = Append(trace, "print")
    /\ UNCHANGED <<env, parsed, nonces, payer, speculative_nonce, cmd, locals, api_log, staking_log>>

\* --------------------------------------------------------------- oui submit
\* The TRANSACTION argument: base64 texts of OUI envelopes as `oui create`
\* prints them (any owner, any payer, each signature slot empty, signed or
\* holding other bytes), of a payment envelope, of an envelope without a
\* variant, and a text that is no base64.
OuiBody(owner, payerField) ==
    [addresses |-> <<>>, owner |-> ToVec(owner), payer |-> payerField, oui |-> 1,
     fee |-> 0, staking_fee |-> 1, owner_signature |-> EmptyVec,
     payer_signature |-> EmptyVec, requested_subnet_size |-> 8,
     filter |-> <<"filter">>]
OuiSlots(o, p) ==
    {[OuiBody(o, p) EXCEPT !.owner_signature = os, !.payer_signature = ps] :
        os \in {EmptyVec, KeypairSign(o, CanonicalOui(OuiBody(o, p)))},
        ps \in {EmptyVec, Garbage} \cup
               (IF p = EmptyVec THEN {}
                ELSE {KeypairSign(p[1], CanonicalOui(OuiBody(o, p)))})}
OuiSamples ==
    UNION {OuiSlots(o, p) : o \in Keys, p \in {EmptyVec} \cup {ToVec(k) : k \in Keys}}
PaymentSample ==
    [fee |-> 0, payments |-> <<[payee |-> ToVec("k3"), amount |-> 1]>>,
     payer |-> ToVec("k1"), nonce |-> 1,
     signature |-> EmptyVec]
TransactionTexts ==
    {ToB64(InEnvelope("Oui", t)) : t \in OuiSamples}
    \cup {ToB64(InEnvelope("Payment", PaymentSample)), ToB64(EmptyEnvelope), <<"b64?">>}

\* Cli::from_args + run(cli) dispatching to oui::Submit::run.
OuiSubmit_run ==
    /\ pc = "idle"
    /\ \E transaction \in TransactionTexts, commit \in BOOLEAN, format \in Formats :
          cmd' = [name |-> "oui_submit", transaction |-> transaction,
                  commit |-> commit, format |-> format]
    /\ pc' = "decode"
    /\ UNCHANGED <<env, parsed, nonces, payer, speculative_nonce, locals, logs, result, trace>>

\* `if let Some(Txn::Oui(t)) = envelope.txn.clone()`
IsOui_AnyVariant(e) == e.txn # None
IsOui(e) == e.txn # None /\ e.txn[1].kind = "Oui"

\* BlockchainTxn::from_b64(&self.transaction)? and the `if let` on its variant.
OuiSubmit_decode ==
    /\ pc = "decode"
    /\ cmd.name = "oui_submit"
    /\ LET r == FromB64(cmd.transaction)
       IN  IF ~r.ok
           THEN /\ Fail("DecodeError")
                /\ UNCHANGED <<txn, envelope, trace>>
           ELSE /\ envelope' = r.v
                /\ IF IsOui(r.v)
                   THEN /\ txn' = r.v.txn[1].v
                        /\ pc' = "submit"
                        /\ trace' = Append(trace, "decode")
                        /\ UNCHANGED result
                   ELSE /\ Fail("Invalid OUI transaction")
                        /\ UNCHANGED <<txn, trace>>
    /\ UNCHANGED <<env, parsed, nonces, payer, speculative_nonce, cmd, status, logs>>

\* The `if self.commit` statement around api_client.submit_txn(&envelope)?.
OuiSubmit_submit ==
    /\ pc = "submit"
    /\ cmd.name = "oui_submit"
    /\ IF CommitGuard(cmd.commit)
       THEN /\ api_log' = Append(api_log, envelope)
            /\ \/ /\ status' = Some(PendingStatus(envelope))
                  /\ pc' = "print"
                  /\ trace' = Append(trace, "submit")
                  /\ UNCHANGED result
               \/ /\ Fail("SubmitError")
                  /\ UNCHANGED <<status, trace>>
       ELSE /\ status' = None
            /\ pc' = "print"
            /\ UNCHANGED <<api_log, result, trace>>
    /\ UNCHANGED <<env, parsed, nonces, payer, speculative_nonce, cmd, txn, envelope, staking_log, stdout>>

\* print_txn(&t, &envelope, &status, opts.format)
OuiSubmit_print ==
    /\ pc = "print"
    /\ cmd.name = "oui_submit"
    /\ stdout' = Append(stdout, OuiPrinted(txn, envelope, status, cmd.format))
    /\ result' = "Ok"
    /\ pc' = "exit"
    /\ trace' = Append(trace, "print")
    /\ UNCHANGED <<env, parsed, nonces, payer, speculative_nonce, cmd, locals, api_log, staking_log>>

\* main: run(cli) has returned (an Err is reported and the process exits 1);
\* the next invocation starts with nothing but the ledger's state.
Main_exit ==
    /\ pc = "exit"
    /\ pc' = "idle"
    /\ cmd' = NoCmd
    /\ txn' = NoTxn
    /\ envelope' = EmptyEnvelope
    /\ status' = None
    /\ payer' = None
    /\ api_log' = <<>>
    /\ staking_log' = <<>>
    /\ stdout' = <<>>
    /\ result' = "running"
    /\ trace' = <<>>
    /\ account' = None
    /\ prev_built' = IF cmd.name \in {"pay", "htlc_create"} /\ txn # NoTxn
                     THEN Some([read |-> account[1].speculative_nonce,
                                nonce |-> txn.nonce])
                     ELSE prev_built
    /\ UNCHANGED <<env, parsed, speculative_nonce, ledger_nonces>>

Next ==
    \/ LoadWallet
    \/ Pay_run \/ Pay_build \/ Pay_sign \/ Pay_submit \/ Pay_print
    \/ HtlcCreate_run \/ HtlcCreate_build \/ HtlcCreate_sign
    \/ HtlcCreate_submit \/ HtlcCreate_print
    \/ HtlcRedeem_run \/ HtlcRedeem_build \/ HtlcRedeem_sign
    \/ HtlcRedeem_submit \/ HtlcRedeem_print
    \/ OuiCreate_run \/ OuiCreate_build \/ OuiCreate_sign
    \/ OuiCreate_submit \/ OuiCreate_print
    \/ OuiSubmit_run \/ OuiSubmit_decode \/ OuiSubmit_submit \/ OuiSubmit_print
    \/ Main_exit

Spec == Init /\ [][Next]_vars

\* ------------------------------------------------------- signing on its own
\* Sign::sign applied to transactions whose signature slots hold anything:
\* the Owner role is signed with wallet_key, the Payer role with staking_key,
\* each at most once and in either order. cmd keeps the transaction as it was
\* before any signing, trace the roles signed so far.
SlotContents == {EmptyVec, Garbage}
SignInputs ==
    {[kind |-> "Oui",
      t0 |-> [OuiBody(o, p) EXCEPT !.owner_signature = os, !.payer_signature = ps]] :
        o \in Keys, p \in {EmptyVec} \cup {ToVec(k) : k \in Keys},
        os \in SlotContents, ps \in SlotContents}
    \cup
    {[kind |-> "RedeemHtlc",
      t0 |-> [fee |-> 0, payee |-> ToVec(o), address |-> ToVec(a),
              preimage |-> IntoBytes("secret"), signature |-> sg]] :
        o \in Keys, a \in Keys, sg \in SlotContents}
    \cup
    {[kind |-> "Payment", t0 |-> [PaymentSample EXCEPT !.signature = sg]] :
        sg \in SlotContents}
    \cup
    {[kind |-> "CreateHtlc",
      t0 |-> [amount |-> 1, fee |-> 0, payee |-> ToVec("k3"), payer |-> ToVec("k1"),
              address |-> ToVec("g1"), hashlock |-> HexDecode([digits |-> 64,
              allhex |-> TRUE]).v, timelock |-> 100, nonce |-> 1, signature |-> sg]] :
        sg \in SlotContents}

\* Sign::sign and the canonical encoder of the variant of kind `kind`.
SignOf(kind, t, key, role) ==
    IF kind = "Oui" THEN SignOui(t, key, role)
    ELSE IF kind = "RedeemHtlc" THEN SignRedeemHtlc(t, key, role)
    ELSE IF kind = "Payment" THEN SignPayment(t, key, role)
    ELSE SignCreateHtlc(t, key, role)
CanonicalBytes(kind, t) ==
    IF kind = "Oui" THEN CanonicalOui(t)
    ELSE IF kind = "RedeemHtlc" THEN CanonicalRedeemHtlc(t)
    ELSE IF kind = "Payment" THEN CanonicalPayment(t)
    ELSE CanonicalCreateHtlc(t)

SignInit ==
    /\ wallet_key \in Keys
    /\ staking_key \in Keys
    /\ speculative_nonce = 0
    /\ \E in \in SignInputs :
          /\ cmd = [name |-> "sign", kind |-> in.kind, t0 |-> in.t0]
          /\ txn = in.t0
    /\ pc = "sign"
    /\ envelope = EmptyEnvelope
    /\ status = None
    /\ payer = None
    /\ parsed = None
    /\ account = None
    /\ ledger_nonces = <<>>
    /\ prev_built = None
    /\ api_log = <<>>
    /\ staking_log = <<>>
    /\ stdout = <<>>
    /\ result = "running"
    /\ trace = <<>>

\* txn.sign(&keypair, role): an Err leaves the transaction as it was.
SignWith(key, role) ==
    /\ cmd.name = "sign"
    /\ \A i \in 1..Len(trace) : trace[i] # role
    /\ LET r == SignOf(cmd.kind, txn, key, role)
       IN  IF r.ok
           THEN /\ txn' = r.v
                /\ UNCHANGED result
           ELSE /\ txn' = txn
                /\ result' = "Invalid signer"
    /\ trace' = Append(trace, role)
    /\ UNCHANGED <<env, parsed, nonces, payer, speculative_nonce, cmd, pc, envelope, status, logs>>

Sign_Owner == SignWith(wallet_key, "Owner")
Sign_Payer == SignWith(staking_key, "Payer")

\* TxnEnvelope::in_envelope of the transaction as signed so far.
Sign_wrap ==
    /\ cmd.name = "sign"
    /\ pc = "sign"
    /\ envelope' = InEnvelope(cmd.kind, txn)
    /\ pc' = "wrapped"
    /\ UNCHANGED <<env, parsed, nonces, payer, speculative_nonce, cmd, txn, status, logs, result, trace>>

SignNext == Sign_Owner \/ Sign_Payer \/ Sign_wrap

SignSpec == SignInit /\ [][SignNext]_vars

\* -------------------------------------------------- parsing a --payee argument
\* Texts are sequences of characters. The arguments the model draws: an
\* address part, with or without a '=', and an amount part.
MaxFracDigits == 9
DigitChars == {"0", "1", "2", "3", "4", "5", "6", "7", "8", "9"}
DigitVal(c) ==
    CASE c = "0" -> 0 [] c = "1" -> 1 [] c = "2" -> 2 [] c = "3" -> 3 [] c = "4" -> 4
      [] c = "5" -> 5 [] c = "6" -> 6 [] c = "7" -> 7 [] c = "8" -> 8 [] OTHER -> 9
Ones(n) == [i \in 1..n |-> "1"]
AddrParts == {<<>>, <<"a">>, <<"a", "b">>}
AmountParts ==
    {<<>>, <<"1">>, <<"x">>, <<".">>, <<"1", ".", "5">>, <<"1", ".", "x">>,
     <<"1", ".", "2", ".", "3">>, <<"1", "=", "2">>}
    \cup {<<"0", ".">> \o Ones(n) : n \in 1..MaxFracDigits}
PayeeTexts == {a \o sep \o amt : a \in AddrParts, sep \in {<<>>, <<"=">>}, amt \in AmountParts}

\* <Hnt as FromStr>::from_str: a decimal number (digits with at most one '.')
\* of at most 8 fractional digits; scanned left to right from position i, with
\* the digits read so far as `mant`, `frac` of them after the '.'.
RECURSIVE ScanDecimal(_, _, _, _, _, _)
ScanDecimal(str, i, seenDot, digits, frac, mant) ==
    IF i > Len(str)
    THEN IF digits = 0 THEN [ok |-> FALSE, v |-> "ParseError"]
         ELSE IF frac > HntScale THEN [ok |-> FALSE, v |-> "DecimalsError"]
         ELSE [ok |-> TRUE, v |-> [mantissa |-> mant, scale |-> frac]]
    ELSE IF str[i] = "."
    THEN IF seenDot THEN [ok |-> FALSE, v |-> "ParseError"]
         ELSE ScanDecimal(str, i + 1, TRUE, digits, frac, mant)
    ELSE IF str[i] \in DigitChars
    THEN ScanDecimal(str, i + 1, seenDot, digits + 1,
                     IF seenDot THEN frac + 1 ELSE frac,
                     IF frac >= HntScale THEN mant ELSE mant * 10 + DigitVal(str[i]))
    ELSE [ok |-> FALSE, v |-> "ParseError"]
ParseHnt(str) == ScanDecimal(str, 1, FALSE, 0, 0, 0)

\* s.find('='): the position of the first '=', 0 for None.
FindEq_Last(str) ==
    IF \E i \in 1..Len(str) : str[i] = "="
    THEN CHOOSE i \in 1..Len(str) :
            str[i] = "=" /\ \A j \in (i + 1)..Len(str) : str[j] # "="
    ELSE 0
FindEq(str) ==
    IF \E i \in 1..Len(str) : str[i] = "="
    THEN CHOOSE i \in 1..Len(str) : str[i] = "=" /\ \A j \in 1..(i - 1) : str[j] # "="
    ELSE 0

\* <Payee as FromStr>::from_str
PayeeFromStr(str) ==
    LET pos == FindEq(str)
    IN  IF pos = 0
        THEN [ok |-> FALSE, v |-> "invalid KEY=value"]
        ELSE LET amount == ParseHnt(SubSeq(str, pos + 1, Len(str)))
             IN  IF amount.ok
                 THEN [ok |-> TRUE,
                       v |-> [address |-> SubSeq(str, 1, pos - 1), amount |-> amount.v]]
                 ELSE [ok |-> FALSE, v |-> amount.v]

ParseInit ==
    /\ wallet_key \in Keys
    /\ staking_key \in Keys
    /\ speculative_nonce = 0
    /\ \E str \in PayeeTexts : cmd = [name |-> "parse", s |-> str]
    /\ pc = "parse"
    /\ txn = NoTxn
    /\ envelope = EmptyEnvelope
    /\ status = None
    /\ payer = None
    /\ parsed = None
    /\ account = None
    /\ ledger_nonces = <<>>
    /\ prev_built = None
    /\ api_log = <<>>
    /\ staking_log = <<>>
    /\ stdout = <<>>
    /\ result = "running"
    /\ trace = <<>>

\* structopt parsing one --payee argument with Payee::from_str.
Payee_from_str ==
    /\ cmd.name = "parse"
    /\ pc = "parse"
    /\ LET r == PayeeFromStr(cmd.s)
       IN  IF r.ok
           THEN /\ parsed' = Some(r.v)
                /\ result' = "Ok"
           ELSE /\ parsed' = None
                /\ result' = r.v
    /\ pc' = "parsed"
    /\ UNCHANGED <<env, nonces, payer, speculative_nonce, cmd, locals, logs, trace>>

ParseNext == Payee_from_str

ParseSpec == ParseInit /\ [][ParseNext]_vars

\* ================================================================== claims
\* The commands that build, sign and may submit a transaction of their own.
Builders == {"pay", "htlc_create", "htlc_redeem", "oui_create"}

\* The Owner-role signature slot of the variant an envelope holds.
OwnerSlot(e) ==
    IF e.txn[1].kind = "Oui" THEN e.txn[1].v.owner_signature ELSE e.txn[1].v.signature

\* The canonical bytes of the variant an envelope holds.
CanonicalOf(e) ==
    LET k == e.txn[1].kind
        t == e.txn[1].v
    IN  IF k = "Payment" THEN CanonicalPayment(t)
        ELSE IF k = "CreateHtlc" THEN CanonicalCreateHtlc(t)
        ELSE IF k = "RedeemHtlc" THEN CanonicalRedeemHtlc(t)
        ELSE CanonicalOui(t)

\* run() has wrapped the signed transaction in an envelope.
Wrapped == \E i \in 1..Len(trace) : trace[i] = "wrap"

\* run() is past its submission statement: it is printing, has printed, or
\* returned the submission's error.
PastSubmit == Wrapped /\ pc \in {"print", "exit"}

\* C1: in `oui create`, when the resolved payer is present and is not the
\* wallet's own key, no envelope is ever passed to the ledger API, --commit or
\* not, and the envelope handed to print_txn (and its base64 text in the JSON
\* output) holds the wallet's Owner signature and an empty Payer slot.
C1_ThirdPartyPayerNeverSubmitted ==
    (cmd.name = "oui_create" /\ payer # None /\ payer # Some(wallet_key)) =>
        /\ api_log = <<>>
        /\ status = None
        /\ Wrapped =>
             /\ envelope.txn # None
             /\ envelope.txn[1].kind = "Oui"
             /\ envelope.txn[1].v.owner_signature # EmptyVec
             /\ envelope.txn[1].v.payer_signature = EmptyVec
        /\ \A i \in 1..Len(stdout) :
             /\ stdout[i].hash = None
             /\ stdout[i].txn # None =>
                  /\ FromB64(stdout[i].txn[1]).v.txn[1].v.owner_signature # EmptyVec
                  /\ FromB64(stdout[i].txn[1]).v.txn[1].v.payer_signature = EmptyVec

\* C1 witness: `oui create --payer staking --commit`, JSON output, has printed.
C1_Witness ==
    /\ cmd.name = "oui_create"
    /\ cmd.commit
    /\ cmd.payer = Some(StakingText)
    /\ payer = Some(staking_key)
    /\ staking_key # wallet_key
    /\ result = "Ok"
    /\ Len(stdout) = 1
    /\ stdout[1].txn # None

\* C2 as stated: in `oui create`, when the resolved payer is the wallet's own
\* key, the envelope that is printed or submitted has both the owner and the
\* payer signature slot populated.
C2_SelfPayerSignsBothRoles ==
    (cmd.name = "oui_create" /\ payer = Some(wallet_key) /\ Wrapped) =>
        /\ envelope.txn[1].v.owner_signature # EmptyVec
        /\ envelope.txn[1].v.payer_signature # EmptyVec
        /\ \A i \in 1..Len(api_log) :
             /\ api_log[i].txn[1].v.owner_signature # EmptyVec
             /\ api_log[i].txn[1].v.payer_signature # EmptyVec

C4_SubmittedIffCommit ==
    (\/ cmd.name \in {"pay", "htlc_create", "htlc_redeem"}
     \/ cmd.name = "oui_create" /\ (payer = None \/ payer = Some(wallet_key))) =>
        /\ Len(api_log) <= 1
        /\ ~cmd.commit => api_log = <<>>
        /\ (cmd.commit /\ PastSubmit) => Len(api_log) = 1
        /\ status # None => Len(api_log) = 1

\* C4 witness: a committed `htlc create` that submitted once and printed.
C4_Witness ==
    /\ cmd.name = "htlc_create"
    /\ cmd.commit
    /\ result = "Ok"
    /\ Len(api_log) = 1
    /\ Len(stdout) = 1

\* The step orders run() can have completed: build, sign, wrap, then submit
\* (only with --commit), then print.
IsPrefix(a, b) == Len(a) <= Len(b) /\ \A i \in 1..Len(a) : a[i] = b[i]
StepOrders == {<<"build", "sign", "wrap", "submit", "print">>,
               <<"build", "sign", "wrap", "print">>}

\* C5: in pay, htlc create, htlc redeem and oui create the completed steps are
\* always a prefix of build, sign, wrap, (submit,) print; every envelope passed
\* to the ledger API holds the wallet's signature over the canonical bytes in
\* its Owner slot (never an empty slot); and after a signing error nothing has
\* been submitted.
C5_SignedBeforeSubmitted ==
    cmd.name \in Builders =>
        /\ \E o \in StepOrders : IsPrefix(trace, o)
        /\ \A i \in 1..Len(api_log) :
             /\ api_log[i].txn # None
             /\ OwnerSlot(api_log[i]) # EmptyVec
             /\ OwnerSlot(api_log[i]) = KeypairSign(wallet_key, CanonicalOf(api_log[i]))
        /\ api_log # <<>> => Wrapped
        /\ result = "SigningError" => api_log = <<>> /\ stdout = <<>>

\* C5 witness: a committed `htlc redeem` whose signed envelope reached the API.
C5_Witness ==
    /\ cmd.name = "htlc_redeem"
    /\ trace = <<"build", "sign", "wrap", "submit">>
    /\ Len(api_log) = 1
    /\ OwnerSlot(api_log[1]) # EmptyVec

\* C6: a failed submission ends run() with the submission's error: the call
\* was made once and is not repeated, no status exists, nothing was printed,
\* and the only step left is main's exit.
C6_SubmitFailureIsFatal ==
    /\ Len(api_log) <= 1
    /\ (api_log # <<>> /\ status = None) =>
          /\ result = "SubmitError"
          /\ pc = "exit"
          /\ stdout = <<>>
    /\ result = "SubmitError" =>
          /\ Len(api_log) = 1
          /\ status = None
          /\ pc = "exit"
          /\ stdout = <<>>
    /\ stdout # <<>> => result = "Ok"

\* C6 witness: a committed `pay` whose submission failed.
C6_Witness ==
    /\ cmd.name = "pay"
    /\ cmd.commit
    /\ result = "SubmitError"
    /\ Len(api_log) = 1

C8_StakingServerSignsFirst ==
    (/\ cmd.name = "oui_submit"
     /\ api_log # <<>>
     /\ FromB64(cmd.transaction).v.txn[1].v.payer = ToVec(staking_key)) =>
        /\ \E i \in 1..Len(staking_log) : staking_log[i] = "sign"
        /\ api_log[1].txn[1].v.payer_signature # EmptyVec

\* Has `role` been signed in this run of SignSpec?
Signed(role) == \E i \in 1..Len(trace) : trace[i] = role

\* C9: however the Owner and the Payer signing of an OUI transaction are
\* ordered, each role's slot ends up holding that role's key's signature over
\* the canonical bytes of the transaction as it was before any signing, and a
\* role that has not signed leaves its slot as it was: the result of both
\* signings is the same in either order.
C9_OuiSigningCommutes ==
    (cmd.name = "sign" /\ cmd.kind = "Oui") =>
        /\ txn.owner_signature =
             IF Signed("Owner")
             THEN KeypairSign(wallet_key, CanonicalOui(cmd.t0))
             ELSE cmd.t0.owner_signature
        /\ txn.payer_signature =
             IF Signed("Payer")
             THEN KeypairSign(staking_key, CanonicalOui(cmd.t0))
             ELSE cmd.t0.payer_signature
        /\ [txn EXCEPT !.owner_signature = EmptyVec, !.payer_signature = EmptyVec]
             = [cmd.t0 EXCEPT !.owner_signature = EmptyVec, !.payer_signature = EmptyVec]

\* C9 witness: Payer signed first, then Owner, by different keys, on a
\* transaction whose slots held other bytes.
C9_Witness ==
    /\ cmd.name = "sign"
    /\ cmd.kind = "Oui"
    /\ trace = <<"Payer", "Owner">>
    /\ wallet_key # staking_key
    /\ cmd.t0.owner_signature = Garbage
    /\ cmd.t0.payer_signature = Garbage
    /\ txn.owner_signature # Garbage
    /\ txn.payer_signature # Garbage

\* The transaction with its signature slots overwritten by `a` and `b`.
WithSlots(kind, t, a, b) ==
    IF kind = "Oui"
    THEN [t EXCEPT !.owner_signature = a, !.payer_signature = b]
    ELSE [t EXCEPT !.signature = a]

\* C10: the canonical bytes depend on the non-signature fields only: whatever
\* the signature slots hold, the bytes are those of the transaction before any
\* signing, so a signed transaction re-canonicalises to its pre-signing bytes.
C10_CanonicalIgnoresSignatures ==
    cmd.name = "sign" =>
        /\ CanonicalBytes(cmd.kind, txn) = CanonicalBytes(cmd.kind, cmd.t0)
        /\ \A a \in SlotContents \cup {KeypairSign(wallet_key, <<>>)},
              b \in SlotContents :
              CanonicalBytes(cmd.kind, WithSlots(cmd.kind, txn, a, b))
                = CanonicalBytes(cmd.kind, WithSlots(cmd.kind, cmd.t0, EmptyVec, EmptyVec))
        /\ pc = "wrapped" =>
              CanonicalOf(envelope) = CanonicalBytes(cmd.kind, cmd.t0)

\* C10 witness: an Owner-signed RedeemHTLC, wrapped, whose slot held other
\* bytes before signing.
C10_Witness ==
    /\ cmd.name = "sign"
    /\ cmd.kind = "RedeemHtlc"
    /\ cmd.t0.signature = Garbage
    /\ trace = <<"Owner">>
    /\ pc = "wrapped"
    /\ envelope.txn[1].v.signature = KeypairSign(wallet_key, CanonicalRedeemHtlc(cmd.t0))

\* C11: the envelope's text form round-trips exactly, with signature slots
\* empty, partly or fully filled: the text a command prints decodes to the
\* envelope it printed, every wrapped envelope survives to_b64 then from_b64,
\* and the envelope `oui submit` decodes re-encodes to the text it was given
\* (same kind, same field values, same signature slots).
C11_EnvelopeTextRoundTrip ==
    /\ \A i \in 1..Len(stdout) :
          stdout[i].txn # None =>
             /\ FromB64(stdout[i].txn[1]).ok
             /\ FromB64(stdout[i].txn[1]).v = envelope
    /\ (cmd.name \in Builders /\ Wrapped) =>
          FromB64(ToB64(envelope)) = [ok |-> TRUE, v |-> envelope]
    /\ (cmd.name = "oui_submit" /\ pc # "decode" /\ FromB64(cmd.transaction).ok) =>
          /\ envelope = FromB64(cmd.transaction).v
          /\ ToB64(envelope) = cmd.transaction
          /\ FromB64(ToB64(envelope)) = [ok |-> TRUE, v |-> envelope]

\* C11 witness: `oui submit` has decoded the text of an envelope as `oui create`
\* prints it for a third-party payer: Owner slot signed, Payer slot empty.
C11_Witness ==
    /\ cmd.name = "oui_submit"
    /\ pc = "print"
    /\ envelope.txn[1].v.owner_signature # EmptyVec
    /\ envelope.txn[1].v.owner_signature # Garbage
    /\ envelope.txn[1].v.payer_signature = EmptyVec
    /\ envelope.txn[1].v.payer # EmptyVec
    /\ ToB64(envelope) = cmd.transaction

\* The subnet sizes the documentation allows: the powers of two from 8 to 65536.
ValidSubnetSizes == {8, 16, 32, 64, 128, 256, 512, 1024, 2048, 4096, 8192, 16384,
                     32768, 65536}

\* C12 as stated: `oui create` rejects every subnet size that is not a power of
\* two in [8, 65536] before building: no OUI transaction with such a size is
\* ever built, signed, printed or submitted, and the invocation ends in an
\* error.
C12_SubnetSizeValidated ==
    (cmd.name = "oui_create" /\ cmd.subnet_size \notin ValidSubnetSizes) =>
        /\ txn = NoTxn
        /\ ~Wrapped
        /\ api_log = <<>>
        /\ stdout = <<>>
        /\ result # "Ok"

\* The length in bytes of a SHA-256 digest.
DigestLen == 32

\* C13 as stated: in `htlc create` a hashlock that is not valid hex ends the
\* command with an error returned from run() (never a panic), with no
\* transaction built, signed or submitted; a hashlock that is accepted is a
\* 32-byte digest.
C13_BadHashlockIsTypedError ==
    cmd.name = "htlc_create" =>
        /\ result # "panic"
        /\ ~HexDecode(cmd.hashlock).ok =>
              /\ txn = NoTxn
              /\ ~Wrapped
              /\ api_log = <<>>
        /\ txn # NoTxn => txn.hashlock.len = DigestLen

\* The text after the first '=' of the argument being parsed, what makes a
\* text no decimal number, and a text's count of fractional digits.
AfterFirstEq(str) ==
    LET first == CHOOSE i \in 1..Len(str) : str[i] = "=" /\ \A j \in 1..(i - 1) : str[j] # "="
    IN  [address |-> SubSeq(str, 1, first - 1), amount |-> SubSeq(str, first + 1, Len(str))]
NonNumeric(a) ==
    \/ \A i \in 1..Len(a) : a[i] \notin DigitChars
    \/ \E i \in 1..Len(a) : a[i] \notin DigitChars \cup {"."}
    \/ Cardinality({i \in 1..Len(a) : a[i] = "."}) > 1
FracCount(a) ==
    IF \E i \in 1..Len(a) : a[i] = "."
    THEN Len(a) - (CHOOSE i \in 1..Len(a) : a[i] = ".")
    ELSE 0

\* C14: parsing `<address>=<amount>` fails when the text has no '=', and when
\* the text after the first '=' is no number or has more than 8 fractional
\* digits; when it succeeds the address is the text before the first '=' and
\* the amount is the parse of everything after it.
C14_PayeeParse ==
    (cmd.name = "parse" /\ pc = "parsed") =>
        /\ (\A i \in 1..Len(cmd.s) : cmd.s[i] # "=") =>
              result # "Ok" /\ parsed = None
        /\ (\E i \in 1..Len(cmd.s) : cmd.s[i] = "=") =>
              LET parts == AfterFirstEq(cmd.s)
              IN  /\ (NonNumeric(parts.amount) \/ FracCount(parts.amount) > HntScale) =>
                        result # "Ok" /\ parsed = None
                  /\ result = "Ok" =>
                        /\ parsed # None
                        /\ parsed[1].address = parts.address
                        /\ ParseHnt(parts.amount).ok
                        /\ parsed[1].amount = ParseHnt(parts.amount).v
                        /\ parsed[1].amount.scale = FracCount(parts.amount)
        /\ result = "Ok" => \E i \in 1..Len(cmd.s) : cmd.s[i] = "="

\* C14 witness: "ab=0.11111111" (8 fractional digits) parsed.
C14_Witness ==
    /\ cmd.name = "parse"
    /\ pc = "parsed"
    /\ result = "Ok"
    /\ parsed[1].address = <<"a", "b">>
    /\ parsed[1].amount = [mantissa |-> 11111111, scale |-> 8]

\* The invocations that build a transaction with a nonce.
NonceBuilders == {"pay", "htlc_create"}

\* C15: the nonce of a Payment or CreateHTLC is the speculative nonce the
\* invocation read from the account plus one, so strictly greater than it; the
\* nonces the ledger accepted are strictly increasing; and an invocation that
\* reads the speculative nonce the previous one read builds the same nonce.
C15_NonceIsSpeculativePlusOne ==
    /\ (cmd.name \in NonceBuilders /\ txn # NoTxn) =>
          /\ account # None
          /\ txn.nonce = account[1].speculative_nonce + 1
          /\ txn.nonce > account[1].speculative_nonce
          /\ status = None => account[1].speculative_nonce = speculative_nonce
          /\ status # None => speculative_nonce = txn.nonce
          /\ (prev_built # None /\ prev_built[1].read = account[1].speculative_nonce) =>
                txn.nonce = prev_built[1].nonce
    /\ \A i, j \in 1..Len(ledger_nonces) :
          i < j => ledger_nonces[i] < ledger_nonces[j]
    /\ prev_built # None => prev_built[1].nonce = prev_built[1].read + 1

\* C15 witness: a committed payment, then an uncommitted invocation that read
\* nonce 1 and built 2, then a committed invocation that read 1 again, built 2
\* and was accepted after nonce 1.
C15_Witness ==
    /\ cmd.name \in NonceBuilders
    /\ txn # NoTxn
    /\ status # None
    /\ account = Some([speculative_nonce |-> 1])
    /\ txn.nonce = 2
    /\ prev_built = Some([read |-> 1, nonce |-> 2])
    /\ ledger_nonces = <<1, 2>>
====
